---- MODULE Spec2Model ----
(***************************************************************************)
(* A model of pydataparc's historian client (src/pydataparc/historian.py): *)
(* the construction of Historian from explicit arguments and os.environ,   *)
(* the six query operations as a call that opens a connection and a cursor *)
(* in nested with-blocks, executes one query and maps the rows, the tag    *)
(* identifier escaping, and TagReading.quality_str.                        *)
(*                                                                         *)
(* Python strings that are inspected character by character (tag           *)
(* identifiers) are sequences of one-character strings; other strings are  *)
(* TLA+ strings.  A naive datetime is a record whose tzinfo is None.       *)
(***************************************************************************)
EXTENDS Integers, Sequences, FiniteSets, TLC

VARIABLES
    environ,          \* os.environ: a function from variable names to values
    ctor_args,        \* the arguments Historian(...) was called with
    consulted,        \* the os.environ keys __init__ looked up
    client,           \* the Historian object (or the exception __init__ raised)
    pc,               \* position of the current call
    call,             \* the operation called and its arguments
    queries,          \* the queries cursor.execute was called with, this call
    rows,             \* the rows the cursor yields for this call's query
    result,           \* what the call returned or raised
    openConns,        \* connections opened and not yet closed
    openCursors,      \* cursors opened and not yet closed
    connectAttempts,  \* calls of pymssql.connect made by the current call
    reached,          \* the last step the current call completed
    esc_id,           \* a tag identifier as the caller supplies it
    esc_out,          \* the identifier after escaping / after the query's REPLACE
    esc_stage,        \* "raw", "escaped" or "collapsed"
    quality,          \* TagReading.quality
    quality_out       \* the value quality_str returned ("" before the call)

vars == <<environ, ctor_args, consulted, client, pc, call, queries, rows, result,
          openConns, openCursors, connectAttempts, reached, esc_id, esc_out, esc_stage,
          quality, quality_out>>

configVars == <<environ, ctor_args, consulted, client>>
callVars == <<pc, call, queries, rows, result, openConns, openCursors, connectAttempts,
              reached>>
escVars == <<esc_id, esc_out, esc_stage>>
qualityVars == <<quality, quality_out>>

\* Python's None, for arguments and tzinfo that are otherwise strings.
None == "<None>"

(***************************************************************************)
(* Bounds of the model.                                                    *)
(***************************************************************************)
MaxRows == 3
MaxIdLen == 5
MaxQuality == 195

(***************************************************************************)
(* Tag identifier escaping.                                                *)
(***************************************************************************)
RECURSIVE Escape(_)
\* str.replace('/', '//'): every '/' doubled.
Escape(s) ==
    IF s = <<>> THEN <<>>
    ELSE IF Head(s) = "/" THEN <<"/", "/">> \o Escape(Tail(s))
    ELSE <<Head(s)>> \o Escape(Tail(s))

RECURSIVE CollapseFirstOnly(_)
\* A REPLACE that stops after the first occurrence of '//'.
CollapseFirstOnly(s) ==
    IF Len(s) < 2 THEN s
    ELSE IF s[1] = "/" /\ s[2] = "/" THEN <<"/">> \o SubSeq(s, 3, Len(s))
    ELSE <<s[1]>> \o CollapseFirstOnly(Tail(s))

RECURSIVE Collapse(_)
\* SQL REPLACE(tagname, '//', '/'): every non-overlapping occurrence of '//',
\* found left to right, becomes '/'.
Collapse(s) ==
    IF Len(s) < 2 THEN s
    ELSE IF s[1] = "/" /\ s[2] = "/" THEN <<"/">> \o Collapse(SubSeq(s, 3, Len(s)))
    ELSE <<s[1]>> \o Collapse(Tail(s))

RECURSIVE Join(_)
\* ";".join(tag_ids)
Join(ids) ==
    IF ids = <<>> THEN <<>>
    ELSE IF Len(ids) = 1 THEN ids[1]
    ELSE ids[1] \o <<";">> \o Join(Tail(ids))

\* [s.replace('/', '//') for s in tag_ids]
EscapeAll(ids) == [i \in 1..Len(ids) |-> Escape(ids[i])]

\* The identifier(s) a call embeds in its query.
EscapedId(tag_id, escape_slashes) == IF escape_slashes THEN Escape(tag_id) ELSE tag_id
EscapedIds(tag_ids, escape_slash) == IF escape_slash THEN EscapeAll(tag_ids) ELSE tag_ids

(***************************************************************************)
(* TagReading                                                              *)
(***************************************************************************)
quality_str_192_only(q) == IF q >= 192 THEN "Good" ELSE IF q = 0 THEN "Bad" ELSE "Unknown"

quality_str(q) == IF q = 192 THEN "Good" ELSE IF q = 0 THEN "Bad" ELSE "Unknown"

TagReading(value, timestamp, q) == [value |-> value, timestamp |-> timestamp, quality |-> q]

Tag(id, description, units) == [id |-> id, description |-> description, units |-> units]

(***************************************************************************)
(* Historian.__init__                                                      *)
(***************************************************************************)
\* The zone names pytz.timezone accepts, of those the model draws from.
KnownZones == {"UTC", "US/Eastern", "Europe/Paris"}

\* The required fields in the order __init__ resolves them, and their variables.
Fields == <<"server", "user", "password", "site_abbreviation">>
EnvVar(f) ==
    CASE f = "server" -> "DATAPARC_SERVER"
      [] f = "user" -> "DATAPARC_USERNAME"
      [] f = "password" -> "DATAPARC_PASSWORD"
      [] f = "site_abbreviation" -> "DATAPARC_SITE_ABBREVIATION"

\* `x or os.environ[var]`: an empty argument treated as absent.
UsesArgumentTruthy(args, f) == args[f] # None /\ args[f] # ""

\* x if x is not None else os.environ[var]: the environment is read only when
\* the argument is None, and a missing key raises KeyError(var).
UsesArgument(args, f) == args[f] # None
Missing(args, env, f) == ~UsesArgument(args, f) /\ EnvVar(f) \notin DOMAIN env
Resolved(args, env, f) == IF UsesArgument(args, f) THEN args[f] ELSE env[EnvVar(f)]

\* The position in Fields of the first field that raises, 0 when none does.
FirstMissing(args, env) ==
    IF \E i \in 1..Len(Fields) : Missing(args, env, Fields[i])
    THEN CHOOSE i \in 1..Len(Fields) :
            /\ Missing(args, env, Fields[i])
            /\ \A j \in 1..(i - 1) : ~Missing(args, env, Fields[j])
    ELSE 0

\* timezone if timezone is not None else os.environ.get('DATAPARC_TIMEZONE', "UTC")
DefaultZone == "UTC"
ZoneName(args, env) ==
    IF args.timezone # None THEN args.timezone
    ELSE IF "DATAPARC_TIMEZONE" \in DOMAIN env THEN env["DATAPARC_TIMEZONE"]
    ELSE DefaultZone

\* The os.environ keys looked up: those of the None arguments up to the first
\* KeyError, and DATAPARC_TIMEZONE when line 53 is reached with timezone None.
EnvLookups(args, env) ==
    LET m == FirstMissing(args, env)
        last == IF m = 0 THEN Len(Fields) ELSE m
    IN  {EnvVar(Fields[i]) : i \in {j \in 1..last : ~UsesArgument(args, Fields[j])}}
        \cup (IF m = 0 /\ args.timezone = None THEN {"DATAPARC_TIMEZONE"} ELSE {})

\* The object __init__ leaves, or the exception it raises.
HistorianInit(args, env) ==
    LET m == FirstMissing(args, env) IN
    IF m # 0
    THEN [status |-> "raise", error |-> "KeyError", name |-> EnvVar(Fields[m])]
    ELSE IF ZoneName(args, env) \notin KnownZones
    THEN [status |-> "raise", error |-> "UnknownTimeZoneError", name |-> ZoneName(args, env)]
    ELSE [status |-> "ok",
          server |-> Resolved(args, env, "server"),
          user |-> Resolved(args, env, "user"),
          password |-> Resolved(args, env, "password"),
          database |-> args.database,
          abbreviation |-> Resolved(args, env, "site_abbreviation"),
          timezone |-> ZoneName(args, env)]

NotConstructed == [status |-> "unconstructed"]

(***************************************************************************)
(* Datetimes and pytz                                                      *)
(***************************************************************************)
\* A datetime: its wall-clock fields (wall: everything down to the second,
\* micro: the microsecond field) and its tzinfo, None for a naive datetime.
Datetime(wall, micro, tzinfo) == [wall |-> wall, micro |-> micro, tzinfo |-> tzinfo]

\* tz.localize(dt) raises ValueError when dt is not naive, and otherwise
\* returns dt with its tzinfo set and its wall-clock fields unchanged.
LocalizeRaises(dt) == dt.tzinfo # None
LocalizeKeepsNaive(tz, dt) == dt
Localize(tz, dt) == [dt EXCEPT !.tzinfo = tz]

\* dt.replace(microsecond=0)
ReplaceMicrosecond(dt) == [dt EXCEPT !.micro = 0]

\* start_time <= end_time, of two datetimes that are both naive or both aware.
NotAfter(a, b) == a.wall < b.wall \/ (a.wall = b.wall /\ a.micro <= b.micro)

(***************************************************************************)
(* Results of a call                                                       *)
(***************************************************************************)
Pending == [kind |-> "pending"]
Raise(e) == [kind |-> "raise", error |-> e]
Return(v) == [kind |-> "return", is_none |-> FALSE, value |-> v]
ReturnNone == [kind |-> "return", is_none |-> TRUE, value |-> <<>>]

(***************************************************************************)
(* The inputs the calls are made with                                      *)
(***************************************************************************)
BoundedSeq(S, n) == UNION {[1..k -> S] : k \in 0..n}

TagT == <<"t">>
TagAB == <<"a", "/", "b">>
TagIds == {TagT, TagAB}
TagIdLists == {<<TagAB, TagT>>, <<TagT>>}

\* (start_time, end_time) pairs: a valid range, an empty one, an inverted one;
\* a caller passes naive datetimes, or datetimes that already carry a tzinfo.
TimeRanges == {<<1, 2>>, <<1, 1>>, <<2, 1>>}
CallerZones == {None, "UTC"}

NoTime == Datetime(0, 0, None)
NoCall == [op |-> "none", tag_id |-> <<>>, tag_ids |-> <<>>, start_time |-> NoTime,
           end_time |-> NoTime, escape |-> TRUE, step_size |-> 60, aggregate |-> "AVERAGE"]

RangedOps == {"get_tag_readings", "get_tags_readings", "get_tags_readings_interpolated"}
ReadingOps == RangedOps \cup {"get_current_tag_reading", "get_current_tags_readings"}

(***************************************************************************)
(* The database, as the client sees it                                     *)
(***************************************************************************)
\* The historian stores tag names in escaped form; its readings are naive.
\* Each is <<tagname, Timestamp, value, quality>>.
DbReadings ==
    {<<Escape(TagT), Datetime(1, 0, None), 1, 192>>,
     <<Escape(TagT), Datetime(2, 500, None), 2, 0>>,
     <<Escape(TagAB), Datetime(1, 250, None), 3, 194>>,
     <<Escape(TagAB), Datetime(2, 0, None), 4, 192>>}

\* SELECT REPLACE(tagname, '//', '/') [Id], Timestamp, value [Value], quality [Quality]
SelectReading(tagname, stamp, value, q) ==
    [Id |-> Collapse(tagname), Timestamp |-> stamp, Value |-> value, Quality |-> q]
ReadingRows == {SelectReading(r[1], r[2], r[3], r[4]) : r \in DbReadings}

\* SELECT abbreviation + '.' + ds.name + '.' + t.sname [Id], t.lname, t.units
SelectTag(abbreviation, source, sname, lname, units) ==
    [Id |-> <<abbreviation, ".", source, ".", sname>>, Description |-> lname, Units |-> units]
TagRows(abbreviation) ==
    {SelectTag(abbreviation, "src", "t", "Test Description", "gal"),
     SelectTag(abbreviation, "src", "u", "", "")}

\* What cursor.execute leaves to fetch.
Responses(c, h) ==
    IF c.op = "get_all_tags" THEN BoundedSeq(TagRows(h.abbreviation), MaxRows)
    ELSE BoundedSeq(ReadingRows, MaxRows)

\* pymssql.connect: it fails without a server (test_historian_no_connection),
\* and may fail or succeed with one.
ConnectOutcomes(h) == IF h.server = "" THEN {"fail"} ELSE {"ok", "fail"}

\* The query a call executes: the function read and its parameters.
Query(c, h) ==
    [fn |-> CASE c.op = "get_all_tags" -> "ctc_tag"
              [] c.op = "get_tags_readings_interpolated" -> "Ctc_fn_parcdata_readinterpolatedtags"
              [] OTHER -> "Ctc_fn_parcdata_readrawtags",
     ids |-> CASE c.op \in {"get_current_tag_reading", "get_tag_readings"} ->
                    EscapedId(c.tag_id, c.escape)
               [] c.op = "get_all_tags" -> <<>>
               [] OTHER -> Join(EscapedIds(c.tag_ids, c.escape)),
     start |-> IF c.op \in RangedOps THEN Localize(h.timezone, c.start_time) ELSE NoTime,
     end |-> IF c.op \in RangedOps THEN Localize(h.timezone, c.end_time) ELSE NoTime]

(***************************************************************************)
(* Row mapping                                                             *)
(***************************************************************************)
\* TagReading(r['Value'], self.timezone.localize(r['Timestamp']), r['Quality'])
ReadingOf(tz, row) == TagReading(row.Value, Localize(tz, row.Timestamp), row.Quality)

\* The same with row['Timestamp'].replace(microsecond=0)
ReadingOfTruncated(tz, row) ==
    TagReading(row.Value, Localize(tz, ReplaceMicrosecond(row.Timestamp)), row.Quality)

\* Tag(r['Id'], r['Description'], r['Units'])
TagOf(row) == Tag(row.Id, row.Description, row.Units)

\* An empty dict, and d[k] = v.
EmptyDict == [k \in {} |-> <<>>]
DictSet(d, k, v) == [x \in DOMAIN d \cup {k} |-> IF x = k THEN v ELSE d[x]]

\* results[-1]
LastRow(results) == results[Len(results)]

\* The body of the grouping loop, with every row starting its list anew.
AddReadingOverwrite(acc, id, reading) == DictSet(acc, id, <<reading>>)

\* The body of the grouping loop: a new list for an identifier not yet in the
\* result, an append to its list otherwise.
AddReading(acc, id, reading) ==
    IF id \notin DOMAIN acc THEN DictSet(acc, id, <<reading>>)
    ELSE DictSet(acc, id, Append(acc[id], reading))

RECURSIVE GroupRows(_, _, _, _)
\* for row in results: ... , from the dict acc, in the order of the rows.
GroupRows(results, acc, tz, truncate) ==
    IF results = <<>> THEN acc
    ELSE LET row == Head(results)
             reading == IF truncate THEN ReadingOfTruncated(tz, row) ELSE ReadingOf(tz, row)
         IN  GroupRows(Tail(results), AddReading(acc, row.Id, reading), tz, truncate)

RECURSIVE CurrentByTag(_, _, _)
\* {r['Id']: TagReading(...) for r in cursor}: a later row replaces an earlier
\* one of the same identifier.
CurrentByTag(results, acc, tz) ==
    IF results = <<>> THEN acc
    ELSE LET row == Head(results)
         IN  CurrentByTag(Tail(results), DictSet(acc, row.Id, ReadingOf(tz, row)), tz)

\* Whether localizing a timestamp of the rows raises.
MappingRaises(results) == \E i \in 1..Len(results) : LocalizeRaises(results[i].Timestamp)

(***************************************************************************)
(* The with-blocks                                                         *)
(***************************************************************************)
\* A with-block that releases only when its body ends normally.
WithExitNoFinally(open, raised) == IF raised THEN open ELSE open - 1

\* Leaving `with pymssql.connect(...) as conn` or `with conn.cursor(...) as
\* cursor`: __exit__ closes the object whether the body returned or raised.
WithExit(open, raised) == open - 1

\* A connect failure caught and turned into an empty result.
ConnectFailedSwallowed == Return(<<>>)

\* The exception pymssql.connect raises leaves the operation uncaught.
ConnectFailed == Raise("OperationalError")

\* The range check of get_tag_readings, reversed.
RangeInvalidReversed(start_time, end_time) == ~NotAfter(end_time, start_time)

\* if not start_time <= end_time
RangeInvalid(start_time, end_time) == ~NotAfter(start_time, end_time)

\* results[-1] taken as results[0].
CurrentRowFirst(results) == results[1]

\* result = results[-1]
CurrentRow(results) == LastRow(results)

(***************************************************************************)
(* The calls                                                               *)
(***************************************************************************)
Begin(c, next, res) ==
    /\ pc = "idle"
    /\ client.status = "ok"
    /\ call' = c
    /\ queries' = <<>>
    /\ rows' = <<>>
    /\ connectAttempts' = 0
    /\ reached' = "called"
    /\ pc' = next
    /\ result' = res
    /\ UNCHANGED <<openConns, openCursors, configVars, escVars, qualityVars>>

\* Leaving both with-blocks with `res` returned or raised.
Leave(res) ==
    /\ pc' = "idle"
    /\ result' = res
    /\ openCursors' = WithExit(openCursors, res.kind = "raise")
    /\ openConns' = WithExit(openConns, res.kind = "raise")

Call_get_all_tags ==
    Begin([NoCall EXCEPT !.op = "get_all_tags"], "connect", Pending)

Call_get_current_tag_reading ==
    \E id \in TagIds, esc \in BOOLEAN :
        Begin([NoCall EXCEPT !.op = "get_current_tag_reading", !.tag_id = id, !.escape = esc],
              "connect", Pending)

Call_get_current_tags_readings ==
    \E ids \in TagIdLists, esc \in BOOLEAN :
        Begin([NoCall EXCEPT !.op = "get_current_tags_readings", !.tag_ids = ids,
                             !.escape = esc],
              "connect", Pending)

Call_get_tag_readings ==
    \E id \in TagIds, esc \in BOOLEAN, t \in TimeRanges, z \in CallerZones :
        LET start_time == Datetime(t[1], 0, z)
            end_time == Datetime(t[2], 0, z)
            c == [NoCall EXCEPT !.op = "get_tag_readings", !.tag_id = id, !.escape = esc,
                                !.start_time = start_time, !.end_time = end_time]
        IN  IF RangeInvalid(start_time, end_time)
            THEN Begin(c, "idle", Raise("ValueError"))
            ELSE Begin(c, "connect", Pending)

Call_get_tags_readings ==
    \E ids \in TagIdLists, esc \in BOOLEAN, t \in TimeRanges, z \in CallerZones :
        Begin([NoCall EXCEPT !.op = "get_tags_readings", !.tag_ids = ids, !.escape = esc,
                             !.start_time = Datetime(t[1], 0, z),
                             !.end_time = Datetime(t[2], 0, z)],
              "connect", Pending)

Call_get_tags_readings_interpolated ==
    \E ids \in TagIdLists, esc \in BOOLEAN, t \in TimeRanges, z \in CallerZones :
        Begin([NoCall EXCEPT !.op = "get_tags_readings_interpolated", !.tag_ids = ids,
                             !.escape = esc,
                             !.start_time = Datetime(t[1], 0, z),
                             !.end_time = Datetime(t[2], 0, z)],
              "connect", Pending)

\* with pymssql.connect(self.server, self.user, self.password, self.database) as conn
Connect ==
    /\ pc = "connect"
    /\ connectAttempts' = connectAttempts + 1
    /\ \E outcome \in ConnectOutcomes(client) :
          IF outcome = "ok"
          THEN /\ openConns' = openConns + 1
               /\ pc' = "cursor"
               /\ reached' = "connected"
               /\ UNCHANGED result
          ELSE /\ pc' = "idle"
               /\ result' = ConnectFailed
               /\ UNCHANGED <<openConns, reached>>
    /\ UNCHANGED <<call, queries, rows, openCursors, configVars, escVars, qualityVars>>

\* with conn.cursor(as_dict=True) as cursor
OpenCursor ==
    /\ pc = "cursor"
    /\ openCursors' = openCursors + 1
    /\ pc' = "execute"
    /\ reached' = "cursor"
    /\ UNCHANGED <<call, queries, rows, result, openConns, connectAttempts,
                   configVars, escVars, qualityVars>>

\* conn.cursor raises: only the connection's with-block is left.
OpenCursorFails ==
    /\ pc = "cursor"
    /\ pc' = "idle"
    /\ result' = Raise("DatabaseError")
    /\ openConns' = WithExit(openConns, TRUE)
    /\ UNCHANGED <<call, queries, rows, openCursors, connectAttempts, reached,
                   configVars, escVars, qualityVars>>

\* The arguments of cursor.execute are evaluated first: localizing a start or
\* end time that already has a tzinfo raises before the query is sent.
ArgumentsRaise ==
    /\ call.op \in RangedOps
    /\ LocalizeRaises(call.start_time) \/ LocalizeRaises(call.end_time)

ExecuteArgumentsRaise ==
    /\ pc = "execute"
    /\ ArgumentsRaise
    /\ Leave(Raise("ValueError"))
    /\ UNCHANGED <<call, queries, rows, connectAttempts, reached, configVars, escVars,
                   qualityVars>>

\* cursor.execute succeeds: the rows are the server's to choose.
Execute ==
    /\ pc = "execute"
    /\ ~ArgumentsRaise
    /\ queries' = Append(queries, Query(call, client))
    /\ \E rs \in Responses(call, client) : rows' = rs
    /\ pc' = "fetch"
    /\ reached' = "executed"
    /\ UNCHANGED <<call, result, openConns, openCursors, connectAttempts,
                   configVars, escVars, qualityVars>>

\* cursor.execute raises (the query fails on the server, the connection drops).
ExecuteFails ==
    /\ pc = "execute"
    /\ ~ArgumentsRaise
    /\ queries' = Append(queries, Query(call, client))
    /\ Leave(Raise("DatabaseError"))
    /\ UNCHANGED <<call, rows, connectAttempts, reached, configVars, escVars, qualityVars>>

\* cursor.fetchall() or the iteration of the cursor raises.
FetchFails ==
    /\ pc = "fetch"
    /\ Leave(Raise("DatabaseError"))
    /\ UNCHANGED <<call, queries, rows, connectAttempts, reached, configVars, escVars,
                   qualityVars>>

Finish(op, res) ==
    /\ pc = "fetch"
    /\ call.op = op
    /\ Leave(res)
    /\ reached' = "fetched"
    /\ UNCHANGED <<call, queries, rows, connectAttempts, configVars, escVars, qualityVars>>

Return_get_all_tags ==
    Finish("get_all_tags", Return([i \in 1..Len(rows) |-> TagOf(rows[i])]))

Return_get_current_tag_reading ==
    Finish("get_current_tag_reading",
           IF rows = <<>> THEN ReturnNone
           ELSE IF LocalizeRaises(CurrentRow(rows).Timestamp) THEN Raise("ValueError")
           ELSE Return(ReadingOf(client.timezone, CurrentRow(rows))))

Return_get_current_tags_readings ==
    Finish("get_current_tags_readings",
           IF MappingRaises(rows) THEN Raise("ValueError")
           ELSE Return(CurrentByTag(rows, EmptyDict, client.timezone)))

Return_get_tag_readings ==
    Finish("get_tag_readings",
           IF MappingRaises(rows) THEN Raise("ValueError")
           ELSE Return([i \in 1..Len(rows) |-> ReadingOf(client.timezone, rows[i])]))

Return_get_tags_readings ==
    Finish("get_tags_readings",
           IF MappingRaises(rows) THEN Raise("ValueError")
           ELSE Return(GroupRows(rows, EmptyDict, client.timezone, FALSE)))

Return_get_tags_readings_interpolated ==
    Finish("get_tags_readings_interpolated",
           IF MappingRaises(rows) THEN Raise("ValueError")
           ELSE Return(GroupRows(rows, EmptyDict, client.timezone, TRUE)))

(***************************************************************************)
(* The specification of the calls: a constructed client, called repeatedly *)
(***************************************************************************)
\* Historian('', '', '', '') as in the tests, or a client with a server; with
\* and without a timezone argument, with and without DATAPARC_TIMEZONE.
CallCtorArgs ==
    {[site_abbreviation |-> a[1], server |-> a[2], user |-> a[3], password |-> a[4],
      timezone |-> tz, database |-> "ctc_config"] :
        a \in {<<"", "", "", "">>, <<"pl", "srv", "u", "pw">>}, tz \in {None, "US/Eastern"}}
CallEnvs == {EmptyDict, [v \in {"DATAPARC_TIMEZONE"} |-> "Europe/Paris"]}

IdleCall ==
    /\ pc = "idle"
    /\ call = NoCall
    /\ queries = <<>>
    /\ rows = <<>>
    /\ result = Pending
    /\ openConns = 0
    /\ openCursors = 0
    /\ connectAttempts = 0
    /\ reached = "called"

IdleEscape == esc_id = <<>> /\ esc_out = <<>> /\ esc_stage = "raw"
IdleQuality == quality = 0 /\ quality_out = ""

Init ==
    /\ environ \in CallEnvs
    /\ ctor_args \in CallCtorArgs
    /\ consulted = EnvLookups(ctor_args, environ)
    /\ client = HistorianInit(ctor_args, environ)
    /\ IdleCall
    /\ IdleEscape
    /\ IdleQuality

Next ==
    \/ Call_get_all_tags
    \/ Call_get_current_tag_reading
    \/ Call_get_current_tags_readings
    \/ Call_get_tag_readings
    \/ Call_get_tags_readings
    \/ Call_get_tags_readings_interpolated
    \/ Connect
    \/ OpenCursor
    \/ OpenCursorFails
    \/ ExecuteArgumentsRaise
    \/ Execute
    \/ ExecuteFails
    \/ FetchFails
    \/ Return_get_all_tags
    \/ Return_get_current_tag_reading
    \/ Return_get_current_tags_readings
    \/ Return_get_tag_readings
    \/ Return_get_tags_readings
    \/ Return_get_tags_readings_interpolated

Spec == Init /\ [][Next]_vars

(***************************************************************************)
(* The specification of construction: Historian(...) under an environment  *)
(***************************************************************************)
EnvVars == {EnvVar(Fields[i]) : i \in 1..Len(Fields)} \cup {"DATAPARC_TIMEZONE"}
EnvValue(v) == IF v = "DATAPARC_TIMEZONE" THEN "Europe/Paris" ELSE "from_env"
ConfigEnvs == {[v \in S |-> EnvValue(v)] : S \in SUBSET EnvVars}

ArgValues == {None, "", "given"}
CtorArgs ==
    [site_abbreviation : ArgValues, server : ArgValues, user : ArgValues,
     password : ArgValues, timezone : {None, "US/Eastern", "Mars/Olympus"},
     database : {"ctc_config"}]
NoArgs ==
    [site_abbreviation |-> None, server |-> None, user |-> None, password |-> None,
     timezone |-> None, database |-> "ctc_config"]

InitConfig ==
    /\ environ \in ConfigEnvs
    /\ ctor_args = NoArgs
    /\ consulted = {}
    /\ client = NotConstructed
    /\ IdleCall
    /\ IdleEscape
    /\ IdleQuality

\* Historian(site_abbreviation, server, user, password, timezone)
Construct ==
    /\ client.status = "unconstructed"
    /\ \E args \in CtorArgs :
          /\ ctor_args' = args
          /\ consulted' = EnvLookups(args, environ)
          /\ client' = HistorianInit(args, environ)
    /\ UNCHANGED <<environ, callVars, escVars, qualityVars>>

NextConfig == Construct

SpecConfig == InitConfig /\ [][NextConfig]_vars

(***************************************************************************)
(* The specification of escaping: an identifier escaped for the query and  *)
(* collapsed again by the query's REPLACE                                  *)
(***************************************************************************)
IdChars == {"a", "/"}

InitEscape ==
    /\ esc_id \in BoundedSeq(IdChars, MaxIdLen)
    /\ esc_out = esc_id
    /\ esc_stage = "raw"
    /\ environ = EmptyDict
    /\ ctor_args = NoArgs
    /\ consulted = {}
    /\ client = NotConstructed
    /\ IdleCall
    /\ IdleQuality

\* tag_id = tag_id.replace('/', '//')
EscapeId ==
    /\ esc_stage = "raw"
    /\ esc_out' = EscapedId(esc_id, TRUE)
    /\ esc_stage' = "escaped"
    /\ UNCHANGED <<esc_id, configVars, callVars, qualityVars>>

\* SELECT REPLACE(tagname, '//', '/') [Id] of the name the query was given
CollapseId ==
    /\ esc_stage = "escaped"
    /\ esc_out' = Collapse(esc_out)
    /\ esc_stage' = "collapsed"
    /\ UNCHANGED <<esc_id, configVars, callVars, qualityVars>>

NextEscape == EscapeId \/ CollapseId

SpecEscape == InitEscape /\ [][NextEscape]_vars

(***************************************************************************)
(* The specification of quality_str: a reading of any quality classified   *)
(***************************************************************************)
InitQuality ==
    /\ quality \in (0 - MaxQuality)..MaxQuality
    /\ quality_out = ""
    /\ environ = EmptyDict
    /\ ctor_args = NoArgs
    /\ consulted = {}
    /\ client = NotConstructed
    /\ IdleCall
    /\ IdleEscape

\* reading.quality_str()
Classify ==
    /\ quality_out = ""
    /\ quality_out' = quality_str(quality)
    /\ UNCHANGED <<quality, configVars, callVars, escVars>>

NextQuality == Classify

SpecQuality == InitQuality /\ [][NextQuality]_vars

(***************************************************************************)
(* Properties                                                              *)
(***************************************************************************)
Done == pc = "idle" /\ call.op # "none"
Returned == Done /\ result.kind = "return"
Inverted == call.start_time.wall > call.end_time.wall

\* The zone a reading is expected in: the timezone argument, else
\* DATAPARC_TIMEZONE, else UTC.
ExpectedZone ==
    IF ctor_args.timezone # None THEN ctor_args.timezone
    ELSE IF "DATAPARC_TIMEZONE" \in DOMAIN environ THEN environ["DATAPARC_TIMEZONE"]
    ELSE "UTC"

\* The reading a row stands for, its sub-second part dropped when zeroed is set.
Expected(row, zeroed) ==
    [value |-> row.Value,
     timestamp |-> [wall |-> row.Timestamp.wall,
                    micro |-> IF zeroed THEN 0 ELSE row.Timestamp.micro,
                    tzinfo |-> ExpectedZone],
     quality |-> row.Quality]

\* The rows of one identifier, in the order of arrival.
RowsOf(id) == SelectSeq(rows, LAMBDA r : r.Id = id)

\* The readings a returned value holds, whatever its shape.
ReadingsReturned ==
    CASE call.op = "get_current_tag_reading" ->
            IF result.is_none THEN {} ELSE {result.value}
      [] call.op = "get_current_tags_readings" ->
            {result.value[k] : k \in DOMAIN result.value}
      [] call.op = "get_tag_readings" ->
            {result.value[i] : i \in DOMAIN result.value}
      [] call.op \in {"get_tags_readings", "get_tags_readings_interpolated"} ->
            UNION {{result.value[k][i] : i \in DOMAIN result.value[k]} :
                      k \in DOMAIN result.value}
      [] OTHER -> {}

\* C1: a get_tag_readings call with start_time > end_time has raised the
\* range error (the ValueError of line 128, the spec's InvalidRangeError) as
\* soon as it is made, with no connection attempted, no connection open and
\* no query issued.
C1_InvalidRangeRaisesBeforeConnect ==
    (call.op = "get_tag_readings" /\ Inverted) =>
        /\ pc = "idle"
        /\ result = Raise("ValueError")
        /\ connectAttempts = 0
        /\ queries = <<>>
        /\ openConns = 0

C1_Witness ==
    /\ call.op = "get_tag_readings"
    /\ Inverted
    /\ result.kind = "raise"
    /\ connectAttempts = 0

\* C2: every ranged operation (get_tag_readings, get_tags_readings,
\* get_tags_readings_interpolated) called with start_time > end_time has
\* raised the range error before any connection attempt or query.
C2_EveryRangedOpRaisesBeforeQuery ==
    (call.op \in RangedOps /\ Inverted) =>
        /\ pc = "idle"
        /\ result = Raise("ValueError")
        /\ connectAttempts = 0
        /\ queries = <<>>

\* C3: between calls no connection and no cursor is open, whichever way the
\* last call ended; during a call at most one of each is open, and the
\* cursor only inside the connection.
C3_ConnectionsReleased ==
    /\ pc = "idle" => (openConns = 0 /\ openCursors = 0)
    /\ pc \in {"idle", "connect"} <=> openConns = 0
    /\ pc \in {"execute", "fetch"} <=> openCursors = 1
    /\ openConns \in {0, 1}
    /\ openCursors \in {0, 1}

\* A call that failed after its rows were ready, and one that failed in the
\* query, both leave nothing open.
C3_Witness ==
    /\ Done
    /\ result = Raise("DatabaseError")
    /\ reached = "executed"
    /\ rows # <<>>
    /\ openConns = 0
    /\ openCursors = 0

\* C4: once get_current_tag_reading has fetched its rows it returns: None
\* exactly when there are no rows, and otherwise the reading of the last
\* row (its value, quality and timestamp).
C4_CurrentReadingIsLastRow ==
    (Done /\ call.op = "get_current_tag_reading" /\ reached = "fetched") =>
        /\ result.kind = "return"
        /\ result.is_none <=> rows = <<>>
        /\ rows # <<>> => result.value = Expected(rows[Len(rows)], FALSE)

C4_Witness ==
    /\ Returned
    /\ call.op = "get_current_tag_reading"
    /\ Len(rows) >= 2
    /\ rows[1] # rows[Len(rows)]
    /\ result.value.value = rows[Len(rows)].Value

\* The attribute a required argument is stored in, and whether the argument
\* is absent both as an argument and from the environment.
C5_FieldOf(f) == IF f = "site_abbreviation" THEN "abbreviation" ELSE f
C5_Absent(f) == ctor_args[f] = None /\ EnvVar(f) \notin DOMAIN environ
C5_RequiredFields == {"server", "user", "password", "site_abbreviation"}

\* C5: a constructed or failed Historian: if one of server, user, password,
\* site_abbreviation is None and its environment variable is unset, the
\* construction raised the KeyError of os.environ (the spec's
\* ConfigurationError) naming the variable of such a field; a field whose
\* argument is not None, the empty string included, is taken from the
\* argument and its environment variable is not looked up.
C5_ConfigurationResolved ==
    client.status # "unconstructed" =>
        /\ (\E f \in C5_RequiredFields : C5_Absent(f)) =>
              /\ client.status = "raise"
              /\ client.error = "KeyError"
              /\ \E f \in C5_RequiredFields : C5_Absent(f) /\ client.name = EnvVar(f)
        /\ \A f \in C5_RequiredFields :
              ctor_args[f] # None =>
                  /\ EnvVar(f) \notin consulted
                  /\ client.status = "ok" => client[C5_FieldOf(f)] = ctor_args[f]

\* An empty server with DATAPARC_SERVER set is used as given, and the user,
\* absent from both, fails the construction.
C5_Witness ==
    /\ ctor_args.server = ""
    /\ "DATAPARC_SERVER" \in DOMAIN environ
    /\ ctor_args.user = None
    /\ "DATAPARC_USERNAME" \notin DOMAIN environ
    /\ client.status = "raise"
    /\ client.name = "DATAPARC_USERNAME"

\* C6: a call never attempts more than one connection; when the attempt
\* fails the call ends raising the connection error, with no query issued
\* and nothing returned; and get_all_tags of a client built with an empty
\* server ends raising.
C6_ConnectFailurePropagates ==
    /\ connectAttempts <= 1
    /\ (Done /\ connectAttempts = 1 /\ reached = "called") =>
          /\ result = Raise("OperationalError")
          /\ queries = <<>>
    /\ (Done /\ call.op = "get_all_tags" /\ client.server = "") =>
          result.kind = "raise"

C6_Witness ==
    /\ Done
    /\ call.op = "get_all_tags"
    /\ ctor_args.server = ""
    /\ ctor_args.user = ""
    /\ connectAttempts = 1
    /\ result = Raise("OperationalError")

\* C7: the map get_tags_readings (and get_tags_readings_interpolated)
\* returns has exactly the identifiers of the rows as its keys, and under
\* each key the readings of that identifier's rows, one per row, in the
\* order of arrival; so no key maps to an empty list.
C7_GroupedInArrivalOrder ==
    (Returned /\ call.op \in {"get_tags_readings", "get_tags_readings_interpolated"}) =>
        /\ DOMAIN result.value = {rows[i].Id : i \in 1..Len(rows)}
        /\ \A k \in DOMAIN result.value :
              /\ Len(result.value[k]) = Len(RowsOf(k))
              /\ Len(result.value[k]) >= 1
              /\ \A i \in 1..Len(RowsOf(k)) :
                    result.value[k][i] =
                        Expected(RowsOf(k)[i], call.op = "get_tags_readings_interpolated")

\* Rows of one tag around a row of another, for two requested tags of which
\* one could also have been absent.
C7_Witness ==
    /\ Returned
    /\ call.op = "get_tags_readings"
    /\ Len(call.tag_ids) = 2
    /\ Len(rows) = 3
    /\ rows[1].Id = rows[3].Id
    /\ rows[1].Id # rows[2].Id
    /\ rows[1] # rows[3]
    /\ Len(result.value[rows[1].Id]) = 2

\* No '//' anywhere in the identifier.
C8_NoDoubleSlash(id) == \A i \in 1..(Len(id) - 1) : ~(id[i] = "/" /\ id[i + 1] = "/")

\* C8: an identifier without '//' that was escaped and then collapsed is
\* the identifier again.
C8_EscapeRoundTrip ==
    (esc_stage = "collapsed" /\ C8_NoDoubleSlash(esc_id)) => esc_out = esc_id

C8_Witness ==
    /\ esc_stage = "collapsed"
    /\ C8_NoDoubleSlash(esc_id)
    /\ Cardinality({i \in 1..Len(esc_id) : esc_id[i] = "/"}) >= 2
    /\ esc_out = esc_id

\* C9: every reading a reading operation returns has a timestamp whose
\* tzinfo is the client's zone (the timezone argument, else
\* DATAPARC_TIMEZONE, else UTC), never None, and whose wall-clock fields are
\* those of a row's timestamp, the microseconds being 0 from
\* get_tags_readings_interpolated.
C9_TimestampsLocalized ==
    (Returned /\ call.op \in ReadingOps) =>
        \A rd \in ReadingsReturned :
            /\ rd.timestamp.tzinfo = ExpectedZone
            /\ rd.timestamp.tzinfo # None
            /\ \E i \in 1..Len(rows) :
                  rd = Expected(rows[i], call.op = "get_tags_readings_interpolated")

\* An interpolated reading of a row with microseconds, for a client built
\* with no timezone at all.
C9_Witness ==
    /\ Returned
    /\ call.op = "get_tags_readings_interpolated"
    /\ ctor_args.timezone = None
    /\ "DATAPARC_TIMEZONE" \notin DOMAIN environ
    /\ \E i \in 1..Len(rows) : rows[i].Timestamp.micro # 0
    /\ \A rd \in ReadingsReturned : rd.timestamp.tzinfo = "UTC" /\ rd.timestamp.micro = 0

\* C10: the classification of a quality code is "Good" for 192, "Bad" for 0
\* and "Unknown" for every other integer.
C10_QualityClassified ==
    quality_out # "" =>
        /\ quality = 192 => quality_out = "Good"
        /\ quality = 0 => quality_out = "Bad"
        /\ quality \notin {0, 192} => quality_out = "Unknown"

C10_Witness == quality = 193 /\ quality_out = "Unknown"

====
